---- MODULE Spec2Model ----
(***************************************************************************)
(* Model of the checkpoint-history gap engine of speedforge                *)
(* (rust_app/src/gap_calculator.rs, calculate_gaps).                       *)
(*                                                                         *)
(* Numbers.  f32 progress values are modelled as integers counted in       *)
(* fortieths of a lap, so CHECKPOINT_INTERVAL (0.05 lap) is 2 units and    *)
(* one completed lap is 40 units; two samples can then lie inside the same *)
(* checkpoint at different progress.  Session times are small naturals.    *)
(* Option<T> is modelled as a sequence: <<>> is None, <<v>> is Some(v).    *)
(* A HashMap is a function whose DOMAIN is the set of keys.                *)
(*                                                                         *)
(* The search loops of calculate_gaps are written `while .. { .. break v }`*)
(* followed by `0.0`; they are modelled as the loop-with-result they are   *)
(* written to be: the value of the break when a common checkpoint is found,*)
(* 0.0 when the loop runs out.                                             *)
(***************************************************************************)
EXTENDS Integers, Sequences, FiniteSets, TLC

\* ---------------------------------------------------------------- bounds
\* number of car slots a tick can carry (length of the CarIdx arrays)
NumCars == 2
\* session times offered to a tick are 0..MaxTime
MaxTime == 2
\* number of calculate_gaps calls in one run
MaxTicks == 3
\* length of the longest CarIdxLapCompleted array offered to a tick
MaxLapSlots == 1
\* slots and calls of the runs whose samples can hold a NaN
MaxMalformedSlots == 3
MaxMalformedTicks == 2
\* completed-lap counts of the samples computed in f32 are 0..MaxLapsF32
MaxLapsF32 == 3
\* execution contexts (threads or tasks) that can call calculate_gaps, and the
\* number of calls they make in one run
NumContexts == 2
MaxCalls == 2
\* a sleep of the telemetry thread lasts its duration or up to MaxOversleep
\* milliseconds longer
MaxOversleep == 2400
\* WebSocket connections accepted in one run, and calls of broadcast_telemetry
NumConns == 2
MaxBroadcasts == 2

\* ------------------------------------------------------- program constants
\* const CHECKPOINT_INTERVAL: f32 = 0.05, in fortieths of a lap
CHECKPOINT_INTERVAL == 2
\* `completed_laps as f32`: one completed lap is 1.0 of progress
LapUnits == 40
\* the f32 NaN that a slot of CarIdxLapDistPct can hold, as a code outside the
\* range of the finite values
NaN == -1000000
\* f32::MANTISSA_DIGITS: an f32 carries 24 significant bits
MANTISSA_DIGITS == 24
\* const CONNECTION_CHECK_INTERVAL: u64 = 5000, milliseconds
CONNECTION_CHECK_INTERVAL == 5000
\* thread::sleep(Duration::from_millis(100)) at the end of the connection loop
CONNECTION_LOOP_SLEEP == 100
\* the preview of the session info is its first 200 bytes
PREVIEW_LEN == 200
\* `if now - LAST_SESSION_RETRY > 30`, in seconds
RETRY_INTERVAL == 30

\* ------------------------------------------------------------ input sets
\* lap distance fractions a slot can report (fortieths of a lap):
\* 0 is in checkpoint 0, 2 in checkpoint 1, 4 and 5 are both in checkpoint 2
DistPcts == {0, 2, 4, 5}
\* completed-lap counts a slot can report; a slot beyond the end of
\* CarIdxLapCompleted counts as 0 laps (unwrap_or(&0))
LapCounts == {1}
SessionTimes == 0..MaxTime
\* the values of a slot in the runs whose samples can hold a NaN
MalformedDistPcts == {NaN, 0, 2}
\* the values of a slot in the runs with several calling contexts
ConcurrentDistPcts == {0, 2}
\* the connections the listener accepts
Conns == 1 .. NumConns
\* calculate_gaps is a pub fn over a static: every thread can call it
Contexts == 1 .. NumContexts

VARIABLES
    CHECKPOINT_HISTORY,   \* static mut Option<HashMap<i32, HashMap<i32, f32>>>
    telemetry_data,       \* the TelemetryData of the latest call, gap_data included
    prev_session_time,    \* Option: SessionTime of the call before the latest one
    monotonic_input,      \* every call so far had the same slots and went back neither in session time nor in a car's progress
    monotonic_progress,   \* every call so far had the same slots and no car lost progress
    ticks,                \* number of calls made so far
    pc,                   \* per context: where its call of calculate_gaps stands ("idle" outside a call)
    sample,               \* per context: Option, the TelemetryData its call was given
    f32_sample,           \* Option: one slot's dist_pct and laps with the f32 total_progress and checkpoint of lines 34-36
    main_pc,              \* telemetry thread of main: "connection_loop", "telemetry_loop" or "panicked"
    elapsed,              \* last_attempt.elapsed() in milliseconds, kept up to CONNECTION_CHECK_INTERVAL
    connection_status,    \* let mut connection_status
    raw_yaml,             \* let raw_yaml of the connection in use
    published,            \* Option: the value last handed to broadcast_telemetry
    last_event,           \* what the latest step of the telemetry thread was
    attempt_parity,       \* number of Connection::new() calls so far, modulo 2
    since_retry,          \* now - LAST_SESSION_RETRY in seconds, kept up to RETRY_INTERVAL + 1
    session_info,         \* where the session_info of the latest tick came from, and whether the tick retried
    retry_succeeded,      \* a retry of get_raw_session_info has returned Ok on the connection in use
    clients,              \* the HashSet<ClientSender> behind Arc<Mutex<..>>
    mutex,                \* who holds the clients mutex: <<>> when it is free
    channel,              \* per connection: the messages queued in its unbounded channel
    conn_pc,              \* per connection: where handle_connection stands
    send_task,            \* per connection: "none", "running" or "finished"
    recv_task,            \* per connection: "none", "running" or "finished"
    ws_out,               \* per connection: the messages sent on its WebSocket, in order
    bc_pc,                \* where the call of broadcast_telemetry stands ("idle" outside a call)
    bc_msg,               \* the message of the current or latest broadcast: its number
    dead_clients,         \* let mut dead_clients of the current or latest broadcast
    bc_result,            \* what the latest broadcast returned: "none", "Ok" or "Err"
    broadcasts,           \* number of broadcast_telemetry calls so far
    count_pc,             \* where the call of client_count stands
    last_count            \* what client_count returned last

\* the state of the telemetry thread of main
main_vars == <<main_pc, elapsed, connection_status, raw_yaml, published, last_event,
               attempt_parity,
              since_retry, session_info, retry_succeeded>>

\* the state of the WebSocket server
conn_vars == <<conn_pc, send_task, recv_task>>
bc_vars == <<bc_pc, bc_msg, dead_clients, bc_result, broadcasts>>
count_vars == <<count_pc, last_count>>
server_vars == <<clients, mutex, channel, ws_out, conn_vars, bc_vars, count_vars>>

vars == <<CHECKPOINT_HISTORY, telemetry_data, prev_session_time, monotonic_input,
          monotonic_progress, ticks, pc, sample, f32_sample, main_vars, server_vars>>

None == <<>>
Some(v) == <<v>>
IsSome(o) == o # <<>>
Unwrap(o) == o[1]

\* the empty HashMap
EmptyMap == [k \in {} |-> 0]

\* HashMap::insert / entry().or_insert_with
MapPut(m, k, v) == [x \in DOMAIN m \cup {k} |-> IF x = k THEN v ELSE m[x]]

\* ------------------------------------------------- progress and checkpoint
\* completed_laps.get(i).unwrap_or(&0) as f32        (i is 0-based)
CompletedLapsOf(completed_laps, i) ==
    IF i + 1 \in DOMAIN completed_laps THEN completed_laps[i + 1] ELSE 0

\* total_progress = dist_pct + completed_laps_f32        (NaN + x is NaN)
TotalProgress(dist_pct, laps) ==
    IF dist_pct = NaN THEN NaN ELSE dist_pct + laps * LapUnits

\* (total_progress / CHECKPOINT_INTERVAL).floor() as i32  (NaN as i32 is 0)
Checkpoint(total_progress) ==
    IF total_progress = NaN THEN 0 ELSE total_progress \div CHECKPOINT_INTERVAL

\* RecordCheckpoint without the contains_key test: the latest sample overwrites
RecordCheckpoint_overwrite(car_history, checkpoint, session_time) ==
    MapPut(car_history, checkpoint, session_time)

\* RecordCheckpoint filling in every checkpoint passed over since the start
RecordCheckpoint_backfill(car_history, checkpoint, session_time) ==
    [cp \in DOMAIN car_history \cup (0 .. checkpoint) |->
        IF cp \in DOMAIN car_history THEN car_history[cp] ELSE session_time]

\* If we've passed a new checkpoint, record the time
RecordCheckpoint(car_history, checkpoint, session_time) ==
    IF checkpoint \in DOMAIN car_history
    THEN car_history
    ELSE MapPut(car_history, checkpoint, session_time)

\* UpdateCarHistory starting the car's map afresh when the car is sampled
\* below a checkpoint it has already recorded
UpdateCarHistory_reset_on_regress(history, i, checkpoint, session_time) ==
    LET car_history == IF i \in DOMAIN history THEN history[i] ELSE EmptyMap
        kept == IF \E cp \in DOMAIN car_history : cp > checkpoint
                THEN EmptyMap ELSE car_history
    IN  MapPut(history, i, RecordCheckpoint(kept, checkpoint, session_time))

\* history.entry(i).or_insert_with(HashMap::new), then the first-crossing insert
UpdateCarHistory(history, i, checkpoint, session_time) ==
    LET car_history == IF i \in DOMAIN history THEN history[i] ELSE EmptyMap
    IN  MapPut(history, i, RecordCheckpoint(car_history, checkpoint, session_time))

\* CollectHistory keeping only the maps of the cars of this sample
RECURSIVE CollectHistory_drop_absent(_, _, _, _, _)
CollectHistory_drop_absent(history, lap_dist_pcts, completed_laps, session_time, i) ==
    IF i >= Len(lap_dist_pcts)
    THEN [car \in {k \in DOMAIN history : k < Len(lap_dist_pcts)} |-> history[car]]
    ELSE LET total_progress == TotalProgress(lap_dist_pcts[i + 1],
                                             CompletedLapsOf(completed_laps, i))
             checkpoint     == Checkpoint(total_progress)
         IN  CollectHistory_drop_absent(
                 UpdateCarHistory(history, i, checkpoint, session_time),
                 lap_dist_pcts, completed_laps, session_time, i + 1)

\* the collection loop over lap_dist_pcts.iter().enumerate(), from slot i on:
\* the history after the loop
RECURSIVE CollectHistory(_, _, _, _, _)
CollectHistory(history, lap_dist_pcts, completed_laps, session_time, i) ==
    IF i >= Len(lap_dist_pcts)
    THEN history
    ELSE LET total_progress == TotalProgress(lap_dist_pcts[i + 1],
                                             CompletedLapsOf(completed_laps, i))
             checkpoint     == Checkpoint(total_progress)
         IN  CollectHistory(UpdateCarHistory(history, i, checkpoint, session_time),
                            lap_dist_pcts, completed_laps, session_time, i + 1)

\* car_data: HashMap<i32, (f32, i32, f32)> = (total_progress, checkpoint, time)
CarData(lap_dist_pcts, completed_laps, session_time) ==
    [i \in 0 .. Len(lap_dist_pcts) - 1 |->
        LET total_progress == TotalProgress(lap_dist_pcts[i + 1],
                                            CompletedLapsOf(completed_laps, i))
        IN  [total_progress |-> total_progress,
             checkpoint     |-> Checkpoint(total_progress),
             time           |-> session_time]]

\* ------------------------------------------------------------------ sorting
\* the orders in which car_data.into_iter() can yield the keys of the HashMap
IterationOrders(keys) ==
    {s \in [1 .. Cardinality(keys) -> keys] :
        \A a, b \in 1 .. Cardinality(keys) : a # b => s[a] # s[b]}

\* f32::partial_cmp(x, y).unwrap_or(Equal): partial_cmp is None when either
\* operand is NaN
PartialCmp(x, y) ==
    IF x = NaN \/ y = NaN THEN "Equal"
    ELSE IF x < y THEN "Less" ELSE IF x > y THEN "Greater" ELSE "Equal"

\* Ordering::then
Then(first, second) == IF first = "Equal" THEN second ELSE first

\* SortCmp with the operands of the progress comparison exchanged: ascending
SortCmp_ascending(a, b) ==
    Then(PartialCmp(a.total_progress, b.total_progress), PartialCmp(a.time, b.time))

\* the closure of sorted_cars.sort_by: progress descending, then time ascending
SortCmp(a, b) ==
    Then(PartialCmp(b.total_progress, a.total_progress), PartialCmp(a.time, b.time))

\* insert x into the sorted sequence, behind every element not greater than it
RECURSIVE InsertSorted(_, _, _)
InsertSorted(sorted, x, car_data) ==
    IF sorted = <<>> THEN <<x>>
    ELSE LET last == sorted[Len(sorted)]
         IN  IF SortCmp(car_data[last], car_data[x]) = "Greater"
             THEN Append(InsertSorted(SubSeq(sorted, 1, Len(sorted) - 1), x, car_data), last)
             ELSE Append(sorted, x)

\* slice::sort_by, a stable sort: equal elements keep their order in `cars`
RECURSIVE SortBy(_, _)
SortBy(cars, car_data) ==
    IF cars = <<>> THEN <<>>
    ELSE InsertSorted(SortBy(SubSeq(cars, 1, Len(cars) - 1), car_data),
                      cars[Len(cars)], car_data)

\* `car_data.into_iter().collect()` followed by `sort_by`: the sorted vectors
\* the call can end up with, one for each order the HashMap can be iterated in
SortedCars(car_data) ==
    {SortBy(iteration_order, car_data) : iteration_order \in IterationOrders(DOMAIN car_data)}

\* ------------------------------------------------------------ gap search
\* CommonCheckpointGap testing only the car's own history and reading a
\* checkpoint the other car never recorded as time 0
RECURSIVE CommonCheckpointGap_own_only(_, _, _)
CommonCheckpointGap_own_only(car_history, other_history, common_checkpoint) ==
    IF common_checkpoint > 0
    THEN IF common_checkpoint \in DOMAIN car_history
         THEN car_history[common_checkpoint]
              - (IF common_checkpoint \in DOMAIN other_history
                 THEN other_history[common_checkpoint] ELSE 0)
         ELSE CommonCheckpointGap_own_only(car_history, other_history, common_checkpoint - 1)
    ELSE 0

\* `let mut common_checkpoint = *checkpoint; while common_checkpoint > 0 {..}`:
\* the difference of the two recorded times at the first checkpoint found in
\* both histories, 0.0 when the loop runs out
RECURSIVE CommonCheckpointGap(_, _, _)
CommonCheckpointGap(car_history, other_history, common_checkpoint) ==
    IF common_checkpoint > 0
    THEN IF common_checkpoint \in DOMAIN car_history
            /\ common_checkpoint \in DOMAIN other_history
         THEN car_history[common_checkpoint] - other_history[common_checkpoint]
         ELSE CommonCheckpointGap(car_history, other_history, common_checkpoint - 1)
    ELSE 0

\* the search loop with `while common_checkpoint >= 0`: checkpoint 0 is looked at too
RECURSIVE SearchSteps_through_zero(_, _, _)
SearchSteps_through_zero(car_history, other_history, common_checkpoint) ==
    IF common_checkpoint >= 0
    THEN IF common_checkpoint \in DOMAIN car_history
            /\ common_checkpoint \in DOMAIN other_history
         THEN 1
         ELSE 1 + SearchSteps_through_zero(car_history, other_history, common_checkpoint - 1)
    ELSE 0

\* number of times the body of `while common_checkpoint > 0 { .. }` runs in the
\* search that starts at common_checkpoint: the last run is the one that breaks
RECURSIVE SearchSteps(_, _, _)
SearchSteps(car_history, other_history, common_checkpoint) ==
    IF common_checkpoint > 0
    THEN IF common_checkpoint \in DOMAIN car_history
            /\ common_checkpoint \in DOMAIN other_history
         THEN 1
         ELSE 1 + SearchSteps(car_history, other_history, common_checkpoint - 1)
    ELSE 0

\* the nested `if let Some(..)` around the search: 0.0 when the history, the
\* car's map or the other car's map is missing
GapTo(history_opt, car_idx, other_idx, checkpoint) ==
    IF IsSome(history_opt)
    THEN LET history == Unwrap(history_opt)
         IN  IF car_idx \in DOMAIN history
             THEN IF other_idx \in DOMAIN history
                  THEN CommonCheckpointGap(history[car_idx], history[other_idx], checkpoint)
                  ELSE 0
             ELSE 0
    ELSE 0

\* let gap_to_leader = if i == 0 { 0.0 } else { .. sorted_cars[0] .. }
\* (i is the 0-based position, sorted_cars a 1-based sequence of car indices)
GapToLeader(history_opt, sorted_cars, car_data, i) ==
    IF i = 0 THEN 0
    ELSE GapTo(history_opt, sorted_cars[i + 1], sorted_cars[1],
               car_data[sorted_cars[i + 1]].checkpoint)

\* let gap_to_next = if i == sorted_cars.len() - 1 { 0.0 } else { .. sorted_cars[i + 1] .. }
GapToNext(history_opt, sorted_cars, car_data, i) ==
    IF i = Len(sorted_cars) - 1 THEN 0
    ELSE GapTo(history_opt, sorted_cars[i + 1], sorted_cars[i + 2],
               car_data[sorted_cars[i + 1]].checkpoint)

\* GapToPrev looking at the neighbour on the wrong side
GapToPrev_next_side(history_opt, sorted_cars, car_data, i) ==
    GapToNext(history_opt, sorted_cars, car_data, i)

\* let gap_to_prev = if i == 0 { 0.0 } else { .. sorted_cars[i - 1] .. }
GapToPrev(history_opt, sorted_cars, car_data, i) ==
    IF i = 0 THEN 0
    ELSE GapTo(history_opt, sorted_cars[i + 1], sorted_cars[i],
               car_data[sorted_cars[i + 1]].checkpoint)

\* Position without the + 1: the 0-based index
Position_zero_based(i) == i

\* position: (i + 1) as i32
Position(i) == i + 1

\* gap_data.push(GapData { .. }) for every position of sorted_cars
GapDataOf(history_opt, sorted_cars, car_data) ==
    [p \in 1 .. Len(sorted_cars) |->
        LET i == p - 1
            car_idx == sorted_cars[p]
        IN  [car_idx              |-> car_idx,
             position             |-> Position(i),
             gap_to_leader        |-> GapToLeader(history_opt, sorted_cars, car_data, i),
             gap_to_next          |-> GapToNext(history_opt, sorted_cars, car_data, i),
             gap_to_prev          |-> GapToPrev(history_opt, sorted_cars, car_data, i),
             last_checkpoint      |-> car_data[car_idx].checkpoint,
             last_checkpoint_time |-> car_data[car_idx].time]]

\* ------------------------------------------------------------ f32 arithmetic
\* A finite non-negative f32 is the record [m |-> mantissa, e |-> exponent] of
\* value m * 2^e, with m = 0 for 0.0 and 2^23 <= m < 2^24 otherwise.  Every
\* operation returns the f32 nearest to its exact result, ties to even.
RECURSIVE Pow2(_)
Pow2(n) == IF n = 0 THEN 1 ELSE 2 * Pow2(n - 1)

\* number of significant bits of n
RECURSIVE BitLen(_)
BitLen(n) == IF n = 0 THEN 0 ELSE 1 + BitLen(n \div 2)

\* n without its s low bits, rounded to nearest, ties to even; sticky tells
\* that the exact value lies above n
ShiftRoundTiesEven(n, s, sticky) ==
    IF s = 0 THEN n
    ELSE LET hi   == n \div Pow2(s)
             lo   == n % Pow2(s)
             half == Pow2(s - 1)
         IN  IF lo > half \/ (lo = half /\ (sticky \/ hi % 2 = 1)) THEN hi + 1 ELSE hi

\* the f32 nearest to n * 2^e; with sticky set the exact value lies between
\* n * 2^e and (n + 1) * 2^e and n carries at least MANTISSA_DIGITS + 2 bits
F32Round(n, e, sticky) ==
    IF n = 0 THEN [m |-> 0, e |-> 0]
    ELSE LET len == BitLen(n)
         IN  IF len <= MANTISSA_DIGITS
             THEN [m |-> n * Pow2(MANTISSA_DIGITS - len), e |-> e - (MANTISSA_DIGITS - len)]
             ELSE LET s == len - MANTISSA_DIGITS
                      r == ShiftRoundTiesEven(n, s, sticky)
                  IN  IF r = Pow2(MANTISSA_DIGITS)
                      THEN [m |-> Pow2(MANTISSA_DIGITS - 1), e |-> e + s + 1]
                      ELSE [m |-> r, e |-> e + s]

\* long division by d: quotient bits are produced until the division is exact
\* or the quotient carries MANTISSA_DIGITS + 2 bits; k counts the bits made
RECURSIVE LongDivide(_, _, _, _)
LongDivide(q, r, d, k) ==
    IF r = 0 \/ q >= Pow2(MANTISSA_DIGITS + 1)
    THEN [q |-> q, r |-> r, k |-> k]
    ELSE IF 2 * r >= d
         THEN LongDivide(2 * q + 1, 2 * r - d, d, k + 1)
         ELSE LongDivide(2 * q, 2 * r, d, k + 1)

\* the f32 nearest to num / den: the value of a decimal literal or reading
F32FromRatio(num, den) ==
    LET res == LongDivide(num \div den, num % den, den, 0)
    IN  F32Round(res.q, 0 - res.k, res.r # 0)

\* `n as f32` for an i32 n >= 0
I32AsF32(n) == F32Round(n, 0, FALSE)

\* a + b in f32
F32Add(a, b) ==
    IF a.m = 0 THEN b
    ELSE IF b.m = 0 THEN a
    ELSE LET e == IF a.e <= b.e THEN a.e ELSE b.e
         IN  F32Round(a.m * Pow2(a.e - e) + b.m * Pow2(b.e - e), e, FALSE)

\* a / b in f32, b # 0.0
F32Div(a, b) ==
    LET res == LongDivide(a.m \div b.m, a.m % b.m, b.m, 0)
    IN  F32Round(res.q, a.e - b.e - res.k, res.r # 0)

\* a <= b
F32LessEq(a, b) ==
    \/ a.m = 0
    \/ /\ b.m # 0
       /\ (a.e < b.e \/ (a.e = b.e /\ a.m <= b.m))

\* `x.floor() as i32`
FloorAsI32(x) == IF x.e >= 0 THEN x.m * Pow2(x.e) ELSE x.m \div Pow2(0 - x.e)

\* const CHECKPOINT_INTERVAL: f32 = 0.05
CHECKPOINT_INTERVAL_F32 == F32FromRatio(1, 20)

\* let total_progress = dist_pct + completed_laps_f32, in f32
TotalProgressF32(dist_pct, laps) == F32Add(dist_pct, I32AsF32(laps))

\* let checkpoint = (total_progress / CHECKPOINT_INTERVAL).floor() as i32, in f32
CheckpointF32(total_progress) ==
    FloorAsI32(F32Div(total_progress, CHECKPOINT_INTERVAL_F32))

\* readings of CarIdxLapDistPct: the f32 values nearest to the fortieths of a
\* lap from 0.05 on, and 0.0
DistPctsF32 == {F32FromRatio(k, 40) : k \in {0} \cup 2 .. 39}

\* ------------------------------------------------------------------ inputs
\* Vec<T> of at most n elements
VecsUpTo(S, n) == UNION {[1 .. k -> S] : k \in 0 .. n}

\* CHECKPOINT_HISTORY after `if CHECKPOINT_HISTORY.is_none() { .. = Some(HashMap::new()) }`
InitHistory(history_opt) == IF IsSome(history_opt) THEN history_opt ELSE Some(EmptyMap)

\* ------------------------------------------------------------------ state
Init ==
    /\ CHECKPOINT_HISTORY = None
    /\ telemetry_data = [CarIdxLapDistPct   |-> <<>>,
                         CarIdxLapCompleted |-> <<>>,
                         SessionTime        |-> 0,
                         gap_data           |-> None]
    /\ prev_session_time = None
    /\ monotonic_input = TRUE
    /\ monotonic_progress = TRUE
    /\ ticks = 0
    /\ pc = [c \in Contexts |-> "idle"]
    /\ sample = [c \in Contexts |-> None]
    /\ f32_sample = None
    /\ main_pc = "connection_loop"
    /\ elapsed = 0
    /\ connection_status = "disconnected"
    /\ raw_yaml = [len |-> 0, char_boundary |-> TRUE]
    /\ published = None
    /\ last_event = "start"
    /\ attempt_parity = 0
    /\ since_retry = RETRY_INTERVAL + 1
    /\ session_info = [source |-> "none", retried |-> FALSE]
    /\ retry_succeeded = FALSE
    /\ clients = {}
    /\ mutex = <<>>
    /\ channel = [c \in Conns |-> <<>>]
    /\ conn_pc = [c \in Conns |-> "none"]
    /\ send_task = [c \in Conns |-> "none"]
    /\ recv_task = [c \in Conns |-> "none"]
    /\ ws_out = [c \in Conns |-> <<>>]
    /\ bc_pc = "idle"
    /\ bc_msg = 0
    /\ dead_clients = {}
    /\ bc_result = "none"
    /\ broadcasts = 0
    /\ count_pc = "idle"
    /\ last_count = 0

\* pub fn calculate_gaps(telemetry_data: &mut TelemetryData), called with the
\* sample of one tick
calculate_gaps(lap_dist_pcts, completed_laps, session_time, sorted_cars) ==
    LET history_opt == Some(CollectHistory(Unwrap(InitHistory(CHECKPOINT_HISTORY)),
                                           lap_dist_pcts, completed_laps, session_time, 0))
        car_data    == CarData(lap_dist_pcts, completed_laps, session_time)
    IN  /\ CHECKPOINT_HISTORY' = history_opt
        /\ telemetry_data' = [CarIdxLapDistPct   |-> lap_dist_pcts,
                              CarIdxLapCompleted |-> completed_laps,
                              SessionTime        |-> session_time,
                              gap_data           |-> Some(GapDataOf(history_opt, sorted_cars, car_data))]

\* the sample (lap_dist_pcts, completed_laps, session_time) continues the
\* previous one without going back: the clock has not gone back, the slots are
\* the same and no car has lost progress
ContinuesSample(lap_dist_pcts, completed_laps, session_time) ==
    /\ session_time >= telemetry_data.SessionTime
    /\ Len(lap_dist_pcts) = Len(telemetry_data.CarIdxLapDistPct)
    /\ \A i \in 0 .. Len(telemetry_data.CarIdxLapDistPct) - 1 :
          TotalProgress(lap_dist_pcts[i + 1], CompletedLapsOf(completed_laps, i))
             >= TotalProgress(telemetry_data.CarIdxLapDistPct[i + 1],
                              CompletedLapsOf(telemetry_data.CarIdxLapCompleted, i))

\* the sample has the slots of the previous one and no car has lost progress
KeepsProgress(lap_dist_pcts, completed_laps) ==
    /\ Len(lap_dist_pcts) = Len(telemetry_data.CarIdxLapDistPct)
    /\ \A i \in 0 .. Len(telemetry_data.CarIdxLapDistPct) - 1 :
          TotalProgress(lap_dist_pcts[i + 1], CompletedLapsOf(completed_laps, i))
             >= TotalProgress(telemetry_data.CarIdxLapDistPct[i + 1],
                              CompletedLapsOf(telemetry_data.CarIdxLapCompleted, i))

\* one tick of the caller, with the sample drawn from the given arrays, and
\* at most max_ticks of them in a run
TickOver(dist_vecs, lap_vecs, max_ticks) ==
    /\ ticks < max_ticks
    /\ \E lap_dist_pcts \in dist_vecs,
          completed_laps \in lap_vecs,
          session_time \in SessionTimes :
          \E sorted_cars \in SortedCars(CarData(lap_dist_pcts, completed_laps, session_time)) :
             /\ calculate_gaps(lap_dist_pcts, completed_laps, session_time, sorted_cars)
             /\ monotonic_input' = (monotonic_input /\
                    (ticks > 0 => ContinuesSample(lap_dist_pcts, completed_laps, session_time)))
             /\ monotonic_progress' = (monotonic_progress /\
                    (ticks > 0 => KeepsProgress(lap_dist_pcts, completed_laps)))
    /\ prev_session_time' = IF ticks = 0 THEN None ELSE Some(telemetry_data.SessionTime)
    /\ ticks' = ticks + 1
    /\ UNCHANGED <<pc, sample, f32_sample, main_vars, server_vars>>

\* one tick of the caller: a sample is taken and handed to calculate_gaps
Tick ==
    TickOver(VecsUpTo(DistPcts, NumCars), VecsUpTo(LapCounts, MaxLapSlots), MaxTicks)

Next == Tick

Spec == Init /\ [][Next]_vars

\* one tick whose sample can hold a NaN in a slot of CarIdxLapDistPct
TickMalformed ==
    TickOver(VecsUpTo(MalformedDistPcts, MaxMalformedSlots),
             VecsUpTo(LapCounts, MaxLapSlots), MaxMalformedTicks)

NextMalformed == TickMalformed

SpecMalformed == Init /\ [][NextMalformed]_vars

\* lines 34-36 for one slot, computed as the f32 arithmetic computes them
SampleF32 ==
    /\ \E dist_pct \in DistPctsF32, laps \in 0 .. MaxLapsF32 :
          LET total_progress == TotalProgressF32(dist_pct, laps)
          IN  f32_sample' = Some([dist_pct       |-> dist_pct,
                                  laps           |-> laps,
                                  total_progress |-> total_progress,
                                  checkpoint     |-> CheckpointF32(total_progress)])
    /\ UNCHANGED <<CHECKPOINT_HISTORY, telemetry_data, prev_session_time,
                   monotonic_input, monotonic_progress, ticks, pc, sample, main_vars, server_vars>>

NextF32 == SampleF32

SpecF32 == Init /\ [][NextF32]_vars

\* ------------------------------------------------- several calling contexts
\* calculate_gaps reaches CHECKPOINT_HISTORY in three places, each inside its
\* own `unsafe` block and none under a lock: the initialisation (lines 21-25),
\* the collection loop (lines 31-51) and the gap loop (lines 64-192).  A call
\* is modelled as these three steps; a context is inside its call from the
\* first of them to the last.
Inside(c) == pc[c] # "idle"

\* another context is inside its call while c takes a step
Racing(c) == \E d \in Contexts \ {c} : Inside(d)

\* what an unsynchronised store can leave in the static: the value the step
\* computed or, when another context is inside its call, also the value
\* `stale` that the data race can leave behind
RaceOutcomes(c, computed, stale) == IF Racing(c) THEN {computed, stale} ELSE {computed}

\* a context calls calculate_gaps(&mut telemetry_data) with its sample
Enter(c) ==
    /\ pc[c] = "idle"
    /\ ticks < MaxCalls
    /\ \E lap_dist_pcts \in VecsUpTo(ConcurrentDistPcts, NumCars),
          session_time \in SessionTimes :
          sample' = [sample EXCEPT ![c] = Some([CarIdxLapDistPct   |-> lap_dist_pcts,
                                                CarIdxLapCompleted |-> <<>>,
                                                SessionTime        |-> session_time])]
    /\ pc' = [pc EXCEPT ![c] = "init"]
    /\ ticks' = ticks + 1
    /\ UNCHANGED <<CHECKPOINT_HISTORY, telemetry_data, prev_session_time,
                   monotonic_input, monotonic_progress, f32_sample, main_vars, server_vars>>

\* unsafe { if CHECKPOINT_HISTORY.is_none() { CHECKPOINT_HISTORY = Some(HashMap::new()); } }
\* racing with another call the test can be stale and the store wipe the map
InitStep(c) ==
    /\ pc[c] = "init"
    /\ CHECKPOINT_HISTORY' \in RaceOutcomes(c, InitHistory(CHECKPOINT_HISTORY), Some(EmptyMap))
    /\ pc' = [pc EXCEPT ![c] = "collect"]
    /\ UNCHANGED <<telemetry_data, prev_session_time, monotonic_input,
                   monotonic_progress, ticks, sample, f32_sample, main_vars, server_vars>>

\* the collection loop with its `if let Some(history) = &mut CHECKPOINT_HISTORY`;
\* racing with another call its inserts can be lost
CollectStep(c) ==
    /\ pc[c] = "collect"
    /\ LET s == Unwrap(sample[c])
       IN  CHECKPOINT_HISTORY' \in
              RaceOutcomes(c,
                           IF IsSome(CHECKPOINT_HISTORY)
                           THEN Some(CollectHistory(Unwrap(CHECKPOINT_HISTORY),
                                                    s.CarIdxLapDistPct, s.CarIdxLapCompleted,
                                                    s.SessionTime, 0))
                           ELSE CHECKPOINT_HISTORY,
                           CHECKPOINT_HISTORY)
    /\ pc' = [pc EXCEPT ![c] = "gaps"]
    /\ UNCHANGED <<telemetry_data, prev_session_time, monotonic_input,
                   monotonic_progress, ticks, sample, f32_sample, main_vars, server_vars>>

\* the sort and the gap loop, which read CHECKPOINT_HISTORY, and the store of
\* gap_data into the caller's TelemetryData
GapsStep(c) ==
    /\ pc[c] = "gaps"
    /\ LET s        == Unwrap(sample[c])
           car_data == CarData(s.CarIdxLapDistPct, s.CarIdxLapCompleted, s.SessionTime)
       IN  \E sorted_cars \in SortedCars(car_data) :
              telemetry_data' = [CarIdxLapDistPct   |-> s.CarIdxLapDistPct,
                                 CarIdxLapCompleted |-> s.CarIdxLapCompleted,
                                 SessionTime        |-> s.SessionTime,
                                 gap_data           |-> Some(GapDataOf(CHECKPOINT_HISTORY,
                                                                       sorted_cars, car_data))]
    /\ pc' = [pc EXCEPT ![c] = "idle"]
    /\ sample' = [sample EXCEPT ![c] = None]
    /\ UNCHANGED <<CHECKPOINT_HISTORY, prev_session_time, monotonic_input,
                   monotonic_progress, ticks, f32_sample, main_vars, server_vars>>

NextConcurrent ==
    \E c \in Contexts : Enter(c) \/ InitStep(c) \/ CollectStep(c) \/ GapsStep(c)

SpecConcurrent == Init /\ [][NextConcurrent]_vars

\* ------------------------------------------------ telemetry thread of main
\* The thread spawned at main.rs:405.  A String is modelled by the two facts
\* the thread looks at: its length in bytes and whether byte PREVIEW_LEN falls
\* on a char boundary.  Time is last_attempt.elapsed() in milliseconds, kept
\* up to CONNECTION_CHECK_INTERVAL (the thread only compares it with that).
EmptyString == [len |-> 0, char_boundary |-> TRUE]

\* the strings get_raw_session_info can return in Ok(..)
RawStrs == {[len |-> 100, char_boundary |-> TRUE],
            [len |-> 300, char_boundary |-> TRUE],
            [len |-> 300, char_boundary |-> FALSE]}

\* Result<String, _> of get_raw_session_info: None is Err
SessionInfoResults == {None} \cup {Some(raw_str) : raw_str \in RawStrs}

\* `if raw_str.len() > 200 { &raw_str[0..200] } else { &raw_str }`: slicing a
\* String at a byte that is no char boundary panics
PreviewPanics(raw_str) == raw_str.len > PREVIEW_LEN /\ ~raw_str.char_boundary

\* the time a thread::sleep(ms) can take
SleepTimes(ms) == {ms, ms + MaxOversleep}

\* last_attempt.elapsed() after d more milliseconds
Elapse(elapsed_ms, d) ==
    IF elapsed_ms + d >= CONNECTION_CHECK_INTERVAL
    THEN CONNECTION_CHECK_INTERVAL ELSE elapsed_ms + d

\* the samples blocking.sample can return in Ok(..), as extract_telemetry
\* reads them: TelemetryData has no gap_data
TelemetrySamples ==
    {[CarIdxLapDistPct   |-> lap_dist_pcts,
      CarIdxLapCompleted |-> <<>>,
      SessionTime        |-> session_time,
      gap_data           |-> None] :
        lap_dist_pcts \in VecsUpTo(ConcurrentDistPcts, NumCars),
        session_time \in SessionTimes}

\* the connection attempt made whatever the time since the last one
AttemptDue_always == TRUE

\* last_attempt.elapsed().unwrap_or(..) >= Duration::from_millis(CONNECTION_CHECK_INTERVAL)
AttemptDue == elapsed >= CONNECTION_CHECK_INTERVAL

\* the whole seconds by which SystemTime::now() can have advanced since the
\* thread's previous step
SecondsPassing == {0, 15, 16}

\* now - LAST_SESSION_RETRY after dt more seconds
Later(since, dt) ==
    IF since + dt > RETRY_INTERVAL THEN RETRY_INTERVAL + 1 ELSE since + dt

\* the clock advances while the thread sleeps or waits
TimePasses ==
    \E dt \in SecondsPassing : since_retry' = Later(since_retry, dt)

\* `last_attempt = SystemTime::now()` and the sleep at the end of the
\* connection loop
EndAttempt ==
    /\ \E d \in SleepTimes(CONNECTION_LOOP_SLEEP) : elapsed' = Elapse(0, d)
    /\ TimePasses

\* lines 477-549: the session_info of the tick.  A non-empty raw_yaml is
\* cloned; otherwise, if LAST_SESSION_RETRY is more than RETRY_INTERVAL seconds
\* old, it is set to now and get_raw_session_info is called again, its string
\* going into this tick's telemetry_data only (raw_yaml is an immutable let);
\* in every other case the tick gets the simulated fallback
UseSessionInfo(dt, info) ==
    LET since == Later(since_retry, dt)
    IN  IF raw_yaml.len # 0
        THEN /\ session_info' = [source |-> "raw_yaml", retried |-> FALSE]
             /\ since_retry' = since
             /\ UNCHANGED retry_succeeded
        ELSE IF since > RETRY_INTERVAL
        THEN /\ since_retry' = 0
             /\ IF IsSome(info)
                THEN /\ session_info' = [source |-> "retry", retried |-> TRUE]
                     /\ retry_succeeded' = TRUE
                ELSE /\ session_info' = [source |-> "fallback", retried |-> TRUE]
                     /\ UNCHANGED retry_succeeded
        ELSE /\ session_info' = [source |-> "fallback", retried |-> FALSE]
             /\ since_retry' = since
             /\ UNCHANGED retry_succeeded

\* the thread dies in a panic
Panic ==
    /\ main_pc' = "panicked"
    /\ last_event' = "panic"

\* an iteration of the connection loop that finds the interval not yet over
Wait ==
    /\ main_pc = "connection_loop"
    /\ ~AttemptDue
    /\ \E d \in SleepTimes(CONNECTION_LOOP_SLEEP) : elapsed' = Elapse(elapsed, d)
    /\ TimePasses
    /\ last_event' = "wait"
    /\ UNCHANGED <<main_pc, connection_status, raw_yaml, published, attempt_parity,
                   session_info, retry_succeeded>>

\* Connection::new() returns Err
ConnectErr ==
    /\ main_pc = "connection_loop"
    /\ AttemptDue
    /\ attempt_parity' = 1 - attempt_parity
    /\ connection_status' = "disconnected"
    /\ EndAttempt
    /\ last_event' = "connect_failed"
    /\ UNCHANGED <<main_pc, raw_yaml, published, session_info, retry_succeeded>>

\* Connection::new() returns Ok(conn): the session info is fetched and
\* previewed, then the telemetry loop starts if conn.blocking() is Ok
ConnectOk ==
    /\ main_pc = "connection_loop"
    /\ AttemptDue
    /\ attempt_parity' = 1 - attempt_parity
    /\ connection_status' = "connected"
    /\ \E info \in SessionInfoResults, blocking_ok \in BOOLEAN :
          IF IsSome(info) /\ PreviewPanics(Unwrap(info))
          THEN /\ Panic
               /\ UNCHANGED <<elapsed, raw_yaml, since_retry>>
          ELSE IF blocking_ok
          THEN /\ main_pc' = "telemetry_loop"
               /\ raw_yaml' = IF IsSome(info) THEN Unwrap(info) ELSE EmptyString
               /\ last_event' = "connected"
               /\ TimePasses
               /\ UNCHANGED elapsed
          ELSE /\ EndAttempt
               /\ last_event' = "no_blocking_handle"
               /\ UNCHANGED <<main_pc, raw_yaml>>
    /\ retry_succeeded' = FALSE
    /\ UNCHANGED <<published, session_info>>

\* the telemetry loop ended by the first broadcast error
SampleOk_break_on_error ==
    /\ main_pc = "telemetry_loop"
    /\ \E data \in TelemetrySamples, dt \in SecondsPassing,
          info \in SessionInfoResults, result \in {"Ok", "Err"} :
          /\ telemetry_data' = data
          /\ published' = Some(data)
          /\ UseSessionInfo(dt, info)
          /\ IF result = "Ok"
             THEN /\ last_event' = "broadcast_ok"
                  /\ UNCHANGED <<main_pc, elapsed>>
             ELSE /\ last_event' = "broadcast_error"
                  /\ main_pc' = "connection_loop"
                  /\ \E d \in SleepTimes(CONNECTION_LOOP_SLEEP) : elapsed' = Elapse(0, d)
    /\ UNCHANGED <<connection_status, raw_yaml, attempt_parity>>

\* blocking.sample returns Ok(sample): the telemetry is extracted, given its
\* session info, converted to JSON and handed to broadcast_telemetry, whose
\* result is logged
SampleOk ==
    /\ main_pc = "telemetry_loop"
    /\ \E data \in TelemetrySamples, dt \in SecondsPassing,
          info \in SessionInfoResults, result \in {"Ok", "Err"} :
          IF /\ raw_yaml.len = 0
             /\ Later(since_retry, dt) > RETRY_INTERVAL
             /\ IsSome(info)
             /\ PreviewPanics(Unwrap(info))
          THEN /\ Panic
               /\ since_retry' = 0
               /\ UNCHANGED <<telemetry_data, published, session_info, retry_succeeded>>
          ELSE /\ telemetry_data' = data
               /\ published' = Some(data)
               /\ UseSessionInfo(dt, info)
               /\ last_event' = IF result = "Ok" THEN "broadcast_ok" ELSE "broadcast_error"
               /\ UNCHANGED main_pc
    /\ UNCHANGED <<elapsed, connection_status, raw_yaml, attempt_parity>>

\* the sampling error that also broadcasts an empty record
SampleErr_broadcasts ==
    /\ main_pc = "telemetry_loop"
    /\ connection_status' = "disconnected"
    /\ main_pc' = "connection_loop"
    /\ EndAttempt
    /\ last_event' = "sample_error"
    /\ published' = Some([CarIdxLapDistPct |-> <<>>, CarIdxLapCompleted |-> <<>>,
                           SessionTime |-> 0, gap_data |-> None])
    /\ UNCHANGED <<telemetry_data, raw_yaml, attempt_parity, session_info, retry_succeeded>>

\* blocking.sample returns Err: the telemetry loop is left
SampleErr ==
    /\ main_pc = "telemetry_loop"
    /\ connection_status' = "disconnected"
    /\ main_pc' = "connection_loop"
    /\ EndAttempt
    /\ last_event' = "sample_error"
    /\ UNCHANGED <<telemetry_data, raw_yaml, published, attempt_parity, session_info,
                   retry_succeeded>>

\* what no step of the telemetry thread touches
NotOfMain == <<CHECKPOINT_HISTORY, prev_session_time, monotonic_input, monotonic_progress,
               ticks, pc, sample, f32_sample, server_vars>>

NextMain ==
    \/ Wait /\ UNCHANGED <<NotOfMain, telemetry_data>>
    \/ ConnectErr /\ UNCHANGED <<NotOfMain, telemetry_data>>
    \/ ConnectOk /\ UNCHANGED <<NotOfMain, telemetry_data>>
    \/ SampleOk /\ UNCHANGED NotOfMain
    \/ SampleErr /\ UNCHANGED NotOfMain

SpecMain == Init /\ [][NextMain]_vars

\* the thread keeps being scheduled and its sleeps return
LiveSpecMain == SpecMain /\ WF_vars(NextMain)

\* ================================================================= claims
\* the history map, the record and the sample of the latest call
History == Unwrap(CHECKPOINT_HISTORY)
HasRecord == IsSome(telemetry_data.gap_data)
Record == Unwrap(telemetry_data.gap_data)
SampleTime == telemetry_data.SessionTime
SampleProgress(car) ==
    TotalProgress(telemetry_data.CarIdxLapDistPct[car + 1],
                  CompletedLapsOf(telemetry_data.CarIdxLapCompleted, car))

\* every entry of history h is in history g, with the same time
EntriesKept(h, g) ==
    \A e \in DOMAIN h :
        /\ e \in DOMAIN g
        /\ \A cp \in DOMAIN h[e] : cp \in DOMAIN g[e] /\ g[e][cp] = h[e][cp]

SetMax(S) == CHOOSE m \in S : \A x \in S : x <= m
Min(a, b) == IF a <= b THEN a ELSE b

\* the checkpoints lo..hi recorded for both cars
CommonCheckpoints(a, b, lo, hi) ==
    {cp \in lo .. hi : a \in DOMAIN History /\ b \in DOMAIN History
                       /\ cp \in DOMAIN History[a] /\ cp \in DOMAIN History[b]}

\* the time gap of car a to car b at their most recent common checkpoint at or
\* below hi, checkpoint 0 included
MostRecentCommonGap(a, b, hi) ==
    LET cp == SetMax(CommonCheckpoints(a, b, 0, hi))
    IN  History[a][cp] - History[b][cp]

\* C1: once history[entity][checkpoint] is recorded, no later call changes its
\* time or removes it.
C1_FirstCrossingKept ==
    [][IsSome(CHECKPOINT_HISTORY) =>
          EntriesKept(Unwrap(CHECKPOINT_HISTORY), Unwrap(CHECKPOINT_HISTORY'))]_vars

\* C1 witness: the latest sample found a car in a checkpoint it had already
\* recorded at another session time, and the recorded time is the earlier one.
C1_Witness ==
    /\ HasRecord
    /\ \E p \in DOMAIN Record :
          History[Record[p].car_idx][Record[p].last_checkpoint] < SampleTime

\* C2: after a call whose session_time is below that of the call before it,
\* every entity has at most one checkpoint in history, timed at the new
\* session_time.
C2_ResetOnClockRegression ==
    (IsSome(prev_session_time) /\ SampleTime < Unwrap(prev_session_time)) =>
        \A e \in DOMAIN History :
            /\ Cardinality(DOMAIN History[e]) <= 1
            /\ \A cp \in DOMAIN History[e] : History[e][cp] = SampleTime

\* C3: for a non-leader A and the leader B, gap_to_leader is
\* history[A][cp] - history[B][cp] at the largest cp of
\* 0..min(A.checkpoint, B.checkpoint), 0 included, recorded for both.
C3_GapToLeaderAtCommonCheckpoint ==
    HasRecord =>
        \A p \in DOMAIN Record :
            LET a  == Record[p].car_idx
                b  == Record[1].car_idx
                hi == Min(Record[p].last_checkpoint, Record[1].last_checkpoint)
            IN  (p > 1 /\ CommonCheckpoints(a, b, 0, hi) # {}) =>
                    Record[p].gap_to_leader = MostRecentCommonGap(a, b, hi)

\* C4: for the entity at sorted position i > 0, gap_to_ahead (gap_to_prev) is
\* the most-recent-common-checkpoint time gap to the entity at position i-1 of
\* this tick's record.
C4_GapToAheadIsCurrentNeighbour ==
    HasRecord =>
        \A p \in DOMAIN Record :
            p > 1 =>
                LET a  == Record[p].car_idx
                    b  == Record[p - 1].car_idx
                    hi == Min(Record[p].last_checkpoint, Record[p - 1].last_checkpoint)
                IN  Record[p].gap_to_prev =
                        IF CommonCheckpoints(a, b, 0, hi) # {}
                        THEN MostRecentCommonGap(a, b, hi) ELSE 0

C6_OneEntryPerEntityRanked ==
    HasRecord =>
        /\ Len(Record) = Len(telemetry_data.CarIdxLapDistPct)
        /\ \A car \in 0 .. Len(telemetry_data.CarIdxLapDistPct) - 1 :
              Cardinality({p \in DOMAIN Record : Record[p].car_idx = car}) = 1
        /\ \A p \in DOMAIN Record : Record[p].position = p

\* C6 witness: a record of two entities that is not in slot order.
C6_Witness ==
    /\ HasRecord
    /\ Len(Record) = 2
    /\ Record[1].car_idx = 1
    /\ Record[2].car_idx = 0
    /\ Record[2].position = 2

\* C7: the rank-1 entity has gap_to_leader = 0 and gap_to_ahead = 0.
C7_LeaderGapsZero ==
    (HasRecord /\ Len(Record) > 0) =>
        /\ Record[1].position = 1
        /\ Record[1].gap_to_leader = 0
        /\ Record[1].gap_to_prev = 0

\* C7 witness: a leader whose history holds a checkpoint in common with the
\* car behind it, recorded at another time.
C7_Witness ==
    /\ HasRecord
    /\ Len(Record) = 2
    /\ Record[1].gap_to_next # 0
    /\ Record[2].gap_to_leader # 0

\* no two cars of the latest sample have the same total_progress
NoTies ==
    \A a, b \in 0 .. Len(telemetry_data.CarIdxLapDistPct) - 1 :
        a # b => SampleProgress(a) # SampleProgress(b)

\* C8: after updates with session time and progress never going back, every
\* gap_to_leader and gap_to_ahead is >= 0.  Stated for the ticks in which no
\* two cars tie, where the progress values alone decide who is ahead.
C8_GapsNonNegative ==
    (HasRecord /\ monotonic_input /\ NoTies) =>
        \A p \in DOMAIN Record :
            Record[p].gap_to_leader >= 0 /\ Record[p].gap_to_prev >= 0

\* C9: two entities with no checkpoint recorded for both at or below the min
\* of their current checkpoints get gap 0 (to the leader and to the car
\* ahead); in the scenario A(0.10 then 0.12), B(0.04 then 0.06) the order is
\* [A, B] and gap_to_leader(B) is 0.  On the grid of fortieths the scenario is
\* A = 4 then 5 (checkpoint 2 twice), B = 0 then 2 (checkpoint 0, then 1).
C9_Scenario ==
    /\ ticks = 2
    /\ telemetry_data.CarIdxLapDistPct = <<5, 2>>
    /\ telemetry_data.CarIdxLapCompleted = <<>>
    /\ DOMAIN History = {0, 1}
    /\ DOMAIN History[0] = {2}
    /\ DOMAIN History[1] = {0, 1}
    /\ History[0][2] = History[1][0]
    /\ History[1][0] < History[1][1]

C9_NoCommonCheckpointGapZero ==
    HasRecord =>
        /\ \A p \in DOMAIN Record :
              p > 1 =>
                 /\ CommonCheckpoints(Record[p].car_idx, Record[1].car_idx, 0,
                        Min(Record[p].last_checkpoint, Record[1].last_checkpoint)) = {}
                      => Record[p].gap_to_leader = 0
                 /\ CommonCheckpoints(Record[p].car_idx, Record[p - 1].car_idx, 0,
                        Min(Record[p].last_checkpoint, Record[p - 1].last_checkpoint)) = {}
                      => Record[p].gap_to_prev = 0
        /\ C9_Scenario =>
              /\ Record[1].car_idx = 0
              /\ Record[2].car_idx = 1
              /\ Record[2].gap_to_leader = 0

\* C9 witness: the scenario's second tick.
C9_Witness == HasRecord /\ C9_Scenario

\* C10: a call whose session_time is not below that of the call before it
\* keeps every history entry, whatever the progress values of the sample.
C10_NoClearWithoutClockRegression ==
    [][(ticks >= 1 /\ ticks' = ticks + 1
        /\ telemetry_data'.SessionTime >= telemetry_data.SessionTime) =>
          EntriesKept(Unwrap(CHECKPOINT_HISTORY), Unwrap(CHECKPOINT_HISTORY'))]_vars

\* C10 witness: the call came at a session time not below the previous one
\* and below that of an earlier call, and found a car below a checkpoint it
\* had recorded before.
C10_Witness ==
    /\ HasRecord
    /\ IsSome(prev_session_time)
    /\ SampleTime >= Unwrap(prev_session_time)
    /\ \E p \in DOMAIN Record :
          \E cp \in DOMAIN History[Record[p].car_idx] :
              /\ cp > Record[p].last_checkpoint
              /\ History[Record[p].car_idx][cp] > SampleTime

\* the car_data of the latest call, and the order of the cars in its record
SampleCarData ==
    CarData(telemetry_data.CarIdxLapDistPct, telemetry_data.CarIdxLapCompleted, SampleTime)
RecordOrder == [p \in DOMAIN Record |-> Record[p].car_idx]

\* C11: the output order depends on nothing but the input: whatever order the
\* call could have ended with for the latest sample is the order of the record.
C11_OrderDeterminedByInput ==
    HasRecord => \A sorted_cars \in SortedCars(SampleCarData) : sorted_cars = RecordOrder

\* the checkpoint map of a car in an Option<history>, empty when there is none
CarHistoryIn(history_opt, car) ==
    IF IsSome(history_opt) /\ car \in DOMAIN Unwrap(history_opt)
    THEN Unwrap(history_opt)[car] ELSE EmptyMap

\* C12: an entity whose progress value in a tick is NaN has no entry in that
\* tick's record, and no history entry of it is added or changed in that tick.
C12_NonFiniteExcluded ==
    [][\A i \in 0 .. Len(telemetry_data'.CarIdxLapDistPct) - 1 :
          telemetry_data'.CarIdxLapDistPct[i + 1] = NaN =>
             /\ \A p \in DOMAIN Unwrap(telemetry_data'.gap_data) :
                    Unwrap(telemetry_data'.gap_data)[p].car_idx # i
             /\ CarHistoryIn(CHECKPOINT_HISTORY', i) = CarHistoryIn(CHECKPOINT_HISTORY, i)]_vars

\* the cars of the latest sample whose progress value is NaN, and the others
MalformedCars ==
    {i \in 0 .. Len(telemetry_data.CarIdxLapDistPct) - 1 :
        telemetry_data.CarIdxLapDistPct[i + 1] = NaN}
IsWellFormedCar(car) == car \notin MalformedCars
RemainingOrder == SelectSeq(RecordOrder, IsWellFormedCar)
RemainingCarData == [car \in DOMAIN SampleCarData \ MalformedCars |-> SampleCarData[car]]
RecordOf(car) == Record[CHOOSE p \in DOMAIN Record : Record[p].car_idx = car]

\* C13: with one malformed entity in the sample, the order of the remaining
\* entities and their gaps to the leader and to the car ahead are those of a
\* call in which the malformed entity is absent.
C13_MalformedEntityIsLocal ==
    (HasRecord /\ Cardinality(MalformedCars) = 1) =>
        /\ RemainingOrder \in SortedCars(RemainingCarData)
        /\ \A p \in DOMAIN RemainingOrder :
              /\ RecordOf(RemainingOrder[p]).gap_to_leader =
                    GapToLeader(CHECKPOINT_HISTORY, RemainingOrder, RemainingCarData, p - 1)
              /\ RecordOf(RemainingOrder[p]).gap_to_prev =
                    GapToPrev(CHECKPOINT_HISTORY, RemainingOrder, RemainingCarData, p - 1)

\* C14: an entity with a slot in the distance array and no completed-lap value
\* has no entry in the record.
C14_MissingFieldExcluded ==
    HasRecord =>
        \A p \in DOMAIN Record :
            Record[p].car_idx + 1 \in DOMAIN telemetry_data.CarIdxLapCompleted

\* C15: an entity that has no slot in a tick's sample gets no entry in that
\* tick's record and its history is after the tick what it was before.
C15_AbsentEntityKeepsHistory ==
    [][(IsSome(CHECKPOINT_HISTORY) /\ ticks' = ticks + 1) =>
          \A car \in DOMAIN Unwrap(CHECKPOINT_HISTORY) :
              car >= Len(telemetry_data'.CarIdxLapDistPct) =>
                 /\ \A p \in DOMAIN Unwrap(telemetry_data'.gap_data) :
                        Unwrap(telemetry_data'.gap_data)[p].car_idx # car
                 /\ car \in DOMAIN Unwrap(CHECKPOINT_HISTORY')
                 /\ Unwrap(CHECKPOINT_HISTORY')[car] = Unwrap(CHECKPOINT_HISTORY)[car]]_vars

\* C15 witness: the latest call had no slot for a car whose history holds a
\* checkpoint, and the car is not in the record.
C15_Witness ==
    /\ HasRecord
    /\ \E car \in DOMAIN History :
          /\ car >= Len(telemetry_data.CarIdxLapDistPct)
          /\ DOMAIN History[car] # {}
          /\ \A p \in DOMAIN Record : Record[p].car_idx # car

\* C16: for entities whose total_progress never decreases, the recorded
\* first-crossing times are non-decreasing in the checkpoint index.
C16_CrossingTimesMonotonic ==
    (HasRecord /\ monotonic_progress) =>
        \A e \in DOMAIN History :
            \A c1, c2 \in DOMAIN History[e] :
                c1 < c2 => History[e][c1] <= History[e][c2]

\* C17: a call adds to an entity's history at most the entry of the checkpoint
\* of its current sample, timed at the call's session_time; checkpoints passed
\* over are not filled in, and cars without a slot get nothing.
C17_AtMostOwnCheckpointInserted ==
    [][ticks' = ticks + 1 =>
          \A car \in DOMAIN Unwrap(CHECKPOINT_HISTORY') :
              LET before == CarHistoryIn(CHECKPOINT_HISTORY, car)
                  after  == Unwrap(CHECKPOINT_HISTORY')[car]
                  added  == DOMAIN after \ DOMAIN before
              IN  IF car < Len(telemetry_data'.CarIdxLapDistPct)
                  THEN LET checkpoint ==
                               Checkpoint(TotalProgress(
                                   telemetry_data'.CarIdxLapDistPct[car + 1],
                                   CompletedLapsOf(telemetry_data'.CarIdxLapCompleted, car)))
                       IN  /\ added \subseteq {checkpoint}
                           /\ checkpoint \in DOMAIN after
                           /\ \A cp \in added : after[cp] = telemetry_data'.SessionTime
                  ELSE added = {}]_vars

\* C17 witness: an entity first seen at checkpoint 2 has that entry only.
C17_Witness ==
    /\ HasRecord
    /\ \E car \in DOMAIN History :
          /\ DOMAIN History[car] = {2}
          /\ History[car][2] = SampleTime

\* ------------------------------------------------------------------- C18
\* checkpoints per lap: 1 / INTERVAL with INTERVAL 5% of a lap
CheckpointsPerLap == 20

\* floor((dist_pct + laps) / INTERVAL) in exact arithmetic, INTERVAL = 1/20
ExactCheckpoint(dist_pct, laps) ==
    CheckpointsPerLap * laps + (CheckpointsPerLap * dist_pct.m) \div Pow2(0 - dist_pct.e)

\* C18: the checkpoint index of a sample is floor((dist_pct + laps) / INTERVAL),
\* one more completed lap at the same dist_pct advances it by exactly 20, and it
\* is non-decreasing in total_progress.
C18_CheckpointArithmetic ==
    IsSome(f32_sample) =>
        LET s == Unwrap(f32_sample)
        IN  /\ s.checkpoint = ExactCheckpoint(s.dist_pct, s.laps)
            /\ CheckpointF32(TotalProgressF32(s.dist_pct, s.laps + 1))
                  = s.checkpoint + CheckpointsPerLap
            /\ \A dist_pct \in DistPctsF32, laps \in 0 .. MaxLapsF32 :
                  F32LessEq(s.total_progress, TotalProgressF32(dist_pct, laps))
                     => s.checkpoint <= CheckpointF32(TotalProgressF32(dist_pct, laps))

\* ------------------------------------------------------------------- C19
\* the searches of the latest call: <<p, q>> when the entry at position p was
\* computed with a search against the car at position q (the leader, the car
\* behind and the car ahead)
Searches ==
    {<<p, q>> \in (DOMAIN Record) \X (DOMAIN Record) :
        \/ p # 1 /\ q = 1
        \/ q = p + 1
        \/ q = p - 1}

\* steps of the search of the car at position p against the car at position q
StepsOf(p, q) ==
    SearchSteps(History[Record[p].car_idx], History[Record[q].car_idx],
                Record[p].last_checkpoint)

Max(a, b) == IF a >= b THEN a ELSE b

Accessing(c) == pc[c] \in {"collect", "gaps"}

\* C20: History has one owner with exclusive access during each tick: at no
\* time are two execution contexts in the middle of their accesses to it.
C20_ExclusiveAccess ==
    \A c, d \in Contexts : (Accessing(c) /\ Accessing(d)) => c = d

\* ------------------------------------------------------------------- C21
\* the step is a tick of the telemetry loop whose sample was taken
SampledTick ==
    /\ main_pc = "telemetry_loop"
    /\ last_event' \in {"broadcast_ok", "broadcast_error"}

\* C21: on every successfully sampled tick the telemetry loop calls
\* calculate_gaps once on the sample, and what it hands to broadcast_telemetry
\* is the telemetry with the record of that call.
C21_EngineInvokedOncePerTick ==
    [][SampledTick =>
          /\ \E sorted_cars \in SortedCars(CarData(telemetry_data'.CarIdxLapDistPct,
                                                     telemetry_data'.CarIdxLapCompleted,
                                                     telemetry_data'.SessionTime)) :
                 calculate_gaps(telemetry_data'.CarIdxLapDistPct,
                                telemetry_data'.CarIdxLapCompleted,
                                telemetry_data'.SessionTime, sorted_cars)
          /\ published' = Some(telemetry_data')]_vars

\* ------------------------------------------------------------------- C22
\* C22: a tick whose sample is lost hands nothing to broadcast_telemetry and
\* leaves the telemetry record and the checkpoint history as they were.
C22_LostSampleSkipped ==
    [][(main_pc = "telemetry_loop" /\ last_event' = "sample_error") =>
          /\ published' = published
          /\ telemetry_data' = telemetry_data
          /\ CHECKPOINT_HISTORY' = CHECKPOINT_HISTORY]_vars

\* C22 witness: a sample was lost after a tick had been published.
C22_Witness == last_event = "sample_error" /\ IsSome(published)

\* ------------------------------------------------------------------- C27
\* C27: a tick whose broadcast returned an error leaves the thread in the
\* telemetry loop on the same connection, where the next sample is taken.
C27_BroadcastErrorKeepsLoop ==
    [][(main_pc = "telemetry_loop" /\ last_event' = "broadcast_error") =>
          /\ main_pc' = "telemetry_loop"
          /\ connection_status' = "connected"
          /\ raw_yaml' = raw_yaml
          /\ attempt_parity' = attempt_parity]_vars

\* C27 witness: the latest broadcast returned an error and the thread is in
\* the telemetry loop, connected.
C27_Witness ==
    /\ last_event = "broadcast_error"
    /\ main_pc = "telemetry_loop"
    /\ connection_status = "connected"

\* ------------------------------------------------------------------- C28
\* C28: a sampling error takes the thread from the telemetry loop back to the
\* connection loop with the status disconnected, the thread never exits, and
\* after every sampling error or failed connection another call of
\* Connection::new() follows.
C28_ThreadReconnectsForever ==
    /\ [](last_event = "sample_error" =>
              (main_pc = "connection_loop" /\ connection_status = "disconnected"))
    /\ [](main_pc # "panicked")
    /\ \A parity \in {0, 1} :
          (last_event \in {"sample_error", "connect_failed"} /\ attempt_parity = parity)
             ~> (attempt_parity # parity)

\* ------------------------------------------------------------------- C29
\* C29: every call of Connection::new() is made when at least
\* CONNECTION_CHECK_INTERVAL milliseconds have passed since last_attempt was
\* set, which is at thread start and at the end of every attempt, after the
\* telemetry loop the attempt started.
C29_AttemptsSpacedByInterval ==
    [][attempt_parity' # attempt_parity =>
          /\ elapsed >= CONNECTION_CHECK_INTERVAL
          /\ (main_pc' = "connection_loop" => elapsed' < CONNECTION_CHECK_INTERVAL)]_vars

\* C29 witness: a second attempt has been made, after a first one that failed.
C29_Witness ==
    /\ attempt_parity = 0
    /\ last_event = "connect_failed"


\* ---------------------------------------------------------------------------
\* The WebSocket server (websocket_server.rs): the listener's connection tasks,
\* the telemetry thread's calls of broadcast_telemetry and the monitoring task's
\* calls of client_count, interleaved.  The clients mutex is a std::sync::Mutex:
\* lock() blocks until it is free, so every critical section is two steps, the
\* acquisition and the body that ends by dropping the guard.  No critical
\* section of the file can panic, so the mutex is never poisoned.
\* ---------------------------------------------------------------------------

\* the contexts that lock the clients mutex
Free == <<>>
Broadcaster == <<"broadcast">>
Counter == <<"count">>
Handler(c) == <<"conn", c>>

\* A ClientSender value: the channel its UnboundedSender feeds, and the place in
\* memory where the value lives (the handler's local, a slot of the HashSet's
\* table, an element of the dead_clients Vec).
LocalSender(c) == [chan |-> c, addr |-> <<"local", c>>]

\* #[derive(Clone)], and a move: the same channel in a value at another address
Clone(client, addr) == [client EXCEPT !.addr = addr]

\* PartialEq for ClientSender: std::ptr::eq(&self.0, &other.0)
ClientSenderEq(a, b) == a.addr = b.addr

\* HashSet::insert: the value is kept, moved into the table, unless the table
\* holds an equal one
HashSetInsert(set, value) ==
    IF \E e \in set : ClientSenderEq(e, value)
    THEN set
    ELSE set \cup {Clone(value, <<"table", value.chan>>)}

\* HashSet::remove: drops the element equal to the key, if there is one
HashSetRemove(set, key) == {e \in set : ~ClientSenderEq(e, key)}

RECURSIVE RemoveAll(_, _)
\* for dead_client in &dead_clients { clients.remove(dead_client); }
RemoveAll(set, keys) ==
    IF keys = {} THEN set
    ELSE LET key == CHOOSE k \in keys : TRUE
         IN RemoveAll(HashSetRemove(set, key), keys \ {key})

GuardDropped_kept(holder) == holder
\* the MutexGuard goes out of scope at the end of its block
GuardDropped(holder) == Free

\* UnboundedSender::send fails exactly when the receiver is gone: rx lives in
\* the send task's future and is dropped when that task ends
SendFails(client) == send_task[client.chan] = "finished"

Enqueue_front(queue, msg) == <<msg>> \o queue
\* UnboundedSender::send on an open channel: the message joins the queue's tail
Enqueue(queue, msg) == Append(queue, msg)

Visited_until_failure(set) ==
    IF \E e \in set : SendFails(e) THEN {e \in set : SendFails(e)} ELSE set
\* for client in clients.iter(): the loop has no break, it visits every element
Visited(set) == set

\* the channels some element of the set feeds
ChansOf(set) == {e.chan : e \in set}

\* --- handle_connection, one task per accepted connection --------------------

\* listener.accept() returns a stream and the handler task is spawned
Accept(c) ==
    /\ conn_pc[c] = "none"
    /\ conn_pc' = [conn_pc EXCEPT ![c] = "handshake"]
    /\ UNCHANGED <<clients, mutex, channel, ws_out, send_task, recv_task, bc_vars, count_vars>>

\* accept_async: on Err the handler returns before it registers anything; on
\* Ok it creates the channel and its ClientSender
Handshake(c) ==
    /\ conn_pc[c] = "handshake"
    /\ \E ok \in BOOLEAN :
        conn_pc' = [conn_pc EXCEPT ![c] = IF ok THEN "add" ELSE "rejected"]
    /\ UNCHANGED <<clients, mutex, channel, ws_out, send_task, recv_task, bc_vars, count_vars>>

\* let mut clients = clients.lock().unwrap(); of the registration block
LockAdd(c) ==
    /\ conn_pc[c] = "add"
    /\ mutex = Free
    /\ mutex' = Handler(c)
    /\ conn_pc' = [conn_pc EXCEPT ![c] = "adding"]
    /\ UNCHANGED <<clients, channel, ws_out, send_task, recv_task, bc_vars, count_vars>>

\* clients.insert(client_sender.clone()), the guard is dropped, the stream is
\* split and both tasks are spawned; the handler then waits in select!
AddClient(c) ==
    /\ conn_pc[c] = "adding"
    /\ mutex = Handler(c)
    /\ clients' = HashSetInsert(clients, Clone(LocalSender(c), <<"temporary", c>>))
    /\ mutex' = GuardDropped(mutex)
    /\ send_task' = [send_task EXCEPT ![c] = "running"]
    /\ recv_task' = [recv_task EXCEPT ![c] = "running"]
    /\ conn_pc' = [conn_pc EXCEPT ![c] = "select"]
    /\ UNCHANGED <<channel, ws_out, bc_vars, count_vars>>

\* send_task: rx.recv() yields the oldest queued message and ws_sender.send
\* writes it; on a write error the task breaks out, which drops rx and what is
\* still queued.  (rx.recv() yields None only once every sender is gone: the
\* set keeps one for good, see HashSetRemove, so that never happens.)
Forward(c) ==
    /\ send_task[c] = "running"
    /\ channel[c] # <<>>
    /\ \E ok \in BOOLEAN :
        IF ok
        THEN /\ ws_out' = [ws_out EXCEPT ![c] = Append(@, Head(channel[c]))]
             /\ channel' = [channel EXCEPT ![c] = Tail(@)]
             /\ UNCHANGED send_task
        ELSE /\ send_task' = [send_task EXCEPT ![c] = "finished"]
             /\ channel' = [channel EXCEPT ![c] = <<>>]
             /\ UNCHANGED ws_out
    /\ UNCHANGED <<clients, mutex, conn_pc, recv_task, bc_vars, count_vars>>

\* recv_task: a close message, a receive error or the end of the stream
RecvEnds(c) ==
    /\ recv_task[c] = "running"
    /\ recv_task' = [recv_task EXCEPT ![c] = "finished"]
    /\ UNCHANGED <<clients, mutex, channel, ws_out, conn_pc, send_task, bc_vars, count_vars>>

\* tokio::select! returns when either task has completed; the other task's
\* JoinHandle is dropped later, which detaches it and does not stop it
Select(c) ==
    /\ conn_pc[c] = "select"
    /\ send_task[c] = "finished" \/ recv_task[c] = "finished"
    /\ conn_pc' = [conn_pc EXCEPT ![c] = "cleanup"]
    /\ UNCHANGED <<clients, mutex, channel, ws_out, send_task, recv_task, bc_vars, count_vars>>

\* let mut clients = clients.lock().unwrap(); of the cleanup block
LockCleanup(c) ==
    /\ conn_pc[c] = "cleanup"
    /\ mutex = Free
    /\ mutex' = Handler(c)
    /\ conn_pc' = [conn_pc EXCEPT ![c] = "cleaning"]
    /\ UNCHANGED <<clients, channel, ws_out, send_task, recv_task, bc_vars, count_vars>>

\* clients.remove(&client_sender), the guard is dropped, the handler returns Ok
Cleanup(c) ==
    /\ conn_pc[c] = "cleaning"
    /\ mutex = Handler(c)
    /\ clients' = HashSetRemove(clients, LocalSender(c))
    /\ mutex' = GuardDropped(mutex)
    /\ conn_pc' = [conn_pc EXCEPT ![c] = "closed"]
    /\ UNCHANGED <<channel, ws_out, send_task, recv_task, bc_vars, count_vars>>

\* --- broadcast_telemetry, called by the telemetry thread ----------------------

\* the call begins with the next message
BeginBroadcast ==
    /\ bc_pc = "idle"
    /\ broadcasts < MaxBroadcasts
    /\ broadcasts' = broadcasts + 1
    /\ bc_msg' = broadcasts + 1
    /\ dead_clients' = {}
    /\ bc_result' = "none"
    /\ bc_pc' = "lock_check"
    /\ UNCHANGED <<clients, mutex, channel, ws_out, conn_vars, count_vars>>

\* let clients_guard = self.clients.lock().unwrap(); of the emptiness check
LockCheck ==
    /\ bc_pc = "lock_check"
    /\ mutex = Free
    /\ mutex' = Broadcaster
    /\ bc_pc' = "checking"
    /\ UNCHANGED <<clients, channel, ws_out, conn_vars, bc_msg, dead_clients, bc_result,
                   broadcasts, count_vars>>

\* return Ok(()) if the set is empty; otherwise the guard is dropped and
\* serde_json::to_string(data)? either returns Err to the caller or yields the
\* message
CheckEmpty ==
    /\ bc_pc = "checking"
    /\ mutex = Broadcaster
    /\ mutex' = GuardDropped(mutex)
    /\ IF clients = {}
       THEN bc_pc' = "idle" /\ bc_result' = "Ok"
       ELSE \E serialized \in BOOLEAN :
                IF serialized
                THEN bc_pc' = "lock_send" /\ UNCHANGED bc_result
                ELSE bc_pc' = "idle" /\ bc_result' = "Err"
    /\ UNCHANGED <<clients, channel, ws_out, conn_vars, bc_msg, dead_clients, broadcasts,
                   count_vars>>

\* let clients = self.clients.lock().unwrap(); of the send phase
LockSend ==
    /\ bc_pc = "lock_send"
    /\ mutex = Free
    /\ mutex' = Broadcaster
    /\ bc_pc' = "sending"
    /\ UNCHANGED <<clients, channel, ws_out, conn_vars, bc_msg, dead_clients, bc_result,
                   broadcasts, count_vars>>

\* the send phase: every visited client gets the message on its channel, or, if
\* the send fails, a clone of it is pushed on dead_clients (a Vec: its order is
\* the set's iteration order and is not used afterwards); the guard is dropped
\* and the call returns Ok when dead_clients is empty
SendPhase ==
    /\ bc_pc = "sending"
    /\ mutex = Broadcaster
    /\ LET failed == {e \in Visited(clients) : SendFails(e)}
           sent == Visited(clients) \ failed
       IN /\ channel' = [c \in Conns |->
                            IF c \in ChansOf(sent) THEN Enqueue(channel[c], bc_msg)
                            ELSE channel[c]]
          /\ dead_clients' = {Clone(e, <<"vec", e.chan>>) : e \in failed}
          /\ IF failed = {}
             THEN bc_pc' = "idle" /\ bc_result' = "Ok"
             ELSE bc_pc' = "lock_remove" /\ UNCHANGED bc_result
    /\ mutex' = GuardDropped(mutex)
    /\ UNCHANGED <<clients, ws_out, conn_vars, bc_msg, broadcasts, count_vars>>

\* let mut clients = self.clients.lock().unwrap(); of the removal phase
LockRemove ==
    /\ bc_pc = "lock_remove"
    /\ mutex = Free
    /\ mutex' = Broadcaster
    /\ bc_pc' = "removing"
    /\ UNCHANGED <<clients, channel, ws_out, conn_vars, bc_msg, dead_clients, bc_result,
                   broadcasts, count_vars>>

\* the removal phase, then Ok(())
RemoveDead ==
    /\ bc_pc = "removing"
    /\ mutex = Broadcaster
    /\ clients' = RemoveAll(clients, dead_clients)
    /\ mutex' = GuardDropped(mutex)
    /\ bc_pc' = "idle"
    /\ bc_result' = "Ok"
    /\ UNCHANGED <<channel, ws_out, conn_vars, bc_msg, dead_clients, broadcasts, count_vars>>

\* --- client_count --------------------------------------------------------------

\* self.clients.lock()
LockCount ==
    /\ count_pc = "idle"
    /\ mutex = Free
    /\ mutex' = Counter
    /\ count_pc' = "locked"
    /\ UNCHANGED <<clients, channel, ws_out, conn_vars, bc_vars, last_count>>

\* clients.len()
client_count ==
    /\ count_pc = "locked"
    /\ mutex = Counter
    /\ last_count' = Cardinality(clients)
    /\ mutex' = GuardDropped(mutex)
    /\ count_pc' = "idle"
    /\ UNCHANGED <<clients, channel, ws_out, conn_vars, bc_vars>>

\* what the server leaves alone
NotOfServer == <<CHECKPOINT_HISTORY, telemetry_data, prev_session_time, monotonic_input,
                 monotonic_progress, ticks, pc, sample, f32_sample, main_vars>>

NextServer ==
    \/ \E c \in Conns : Accept(c) /\ UNCHANGED NotOfServer
    \/ \E c \in Conns : Handshake(c) /\ UNCHANGED NotOfServer
    \/ \E c \in Conns : LockAdd(c) /\ UNCHANGED NotOfServer
    \/ \E c \in Conns : AddClient(c) /\ UNCHANGED NotOfServer
    \/ \E c \in Conns : Forward(c) /\ UNCHANGED NotOfServer
    \/ \E c \in Conns : RecvEnds(c) /\ UNCHANGED NotOfServer
    \/ \E c \in Conns : Select(c) /\ UNCHANGED NotOfServer
    \/ \E c \in Conns : LockCleanup(c) /\ UNCHANGED NotOfServer
    \/ \E c \in Conns : Cleanup(c) /\ UNCHANGED NotOfServer
    \/ BeginBroadcast /\ UNCHANGED NotOfServer
    \/ LockCheck /\ UNCHANGED NotOfServer
    \/ CheckEmpty /\ UNCHANGED NotOfServer
    \/ LockSend /\ UNCHANGED NotOfServer
    \/ SendPhase /\ UNCHANGED NotOfServer
    \/ LockRemove /\ UNCHANGED NotOfServer
    \/ RemoveDead /\ UNCHANGED NotOfServer
    \/ LockCount /\ UNCHANGED NotOfServer
    \/ client_count /\ UNCHANGED NotOfServer

SpecServer == Init /\ [][NextServer]_vars


\* ---------------------------------------------------------------------------
\* Properties of the WebSocket server
\* ---------------------------------------------------------------------------

\* C23: once a connection's handler has run its cleanup, the connection's
\* sender is no longer in the client set, so that client_count, which returns
\* the size of the set, no longer counts it: a count read when no handler is
\* between its registration and its cleanup is 0.
C23_CleanedUpClientNotCounted ==
    /\ \A c \in Conns : conn_pc[c] = "closed" => c \notin ChansOf(clients)
    /\ (\A c \in Conns : conn_pc[c] \in {"none", "rejected", "closed"})
           => Cardinality(clients) = 0


\* C24: the send phase of broadcast_telemetry puts the message exactly once on
\* the channel of every client in the set whose channel is open, a client whose
\* send fails is recorded in dead_clients and stops nobody else's send, other
\* channels are left alone, and a call that reached the send phase returns Ok.
C24_BroadcastReachesEveryClient ==
    [][/\ (bc_pc = "sending" /\ bc_pc' # "sending") =>
            /\ \A c \in Conns :
                 channel'[c] = IF c \in ChansOf(clients) /\ send_task[c] # "finished"
                               THEN Append(channel[c], bc_msg)
                               ELSE channel[c]
            /\ ChansOf(dead_clients') =
                 {c \in ChansOf(clients) : send_task[c] = "finished"}
       /\ (bc_pc \in {"sending", "removing"} /\ bc_pc' = "idle") => bc_result' = "Ok"
      ]_vars

\* C24: a send phase has ended in which one client's send failed and another
\* client got the message
C24_Witness ==
    /\ bc_pc = "lock_remove"
    /\ dead_clients # {}
    /\ \E c \in Conns : channel[c] # <<>> /\ channel[c][Len(channel[c])] = bc_msg

\* C25: when broadcast_telemetry has returned Ok, no client whose send failed
\* during that call is in the client set any more.
C25_DeadClientsRemoved ==
    (bc_pc = "idle" /\ bc_result = "Ok") =>
        ChansOf(dead_clients) \cap ChansOf(clients) = {}

\* the step by which the holder of the mutex leaves its critical section
HolderStep ==
    \/ \E c \in Conns : AddClient(c) \/ Cleanup(c)
    \/ CheckEmpty \/ SendPhase \/ RemoveDead
    \/ client_count

\* C26: nobody deadlocks on the clients mutex: a context that is about to lock
\* it never holds it already (in particular the removal phase of a broadcast
\* locks it only after the send phase's guard is gone), its holder is inside
\* one of the critical sections, none of which contains an await, and the
\* holder can always take the step that releases it.
C26_NoDeadlockOnClientsMutex ==
    /\ bc_pc \in {"lock_check", "lock_send", "lock_remove"} => mutex # Broadcaster
    /\ count_pc = "idle" => mutex # Counter
    /\ \A c \in Conns : conn_pc[c] \in {"add", "select", "cleanup"} => mutex # Handler(c)
    /\ mutex = Broadcaster => bc_pc \in {"checking", "sending", "removing"}
    /\ mutex = Counter => count_pc = "locked"
    /\ \A c \in Conns : mutex = Handler(c) => conn_pc[c] \in {"adding", "cleaning"}
    /\ mutex # Free => ENABLED HolderStep

\* C26: the broadcast is in its removal phase while a connection handler waits
\* for the mutex
C26_Witness ==
    /\ bc_pc = "removing"
    /\ mutex = Broadcaster
    /\ \E c \in Conns : conn_pc[c] \in {"add", "cleanup"}

\* the sequence is strictly increasing
StrictlyIncreasing(seq) ==
    \A i, j \in DOMAIN seq : i < j => seq[i] < seq[j]

\* C30: what a client's WebSocket has been sent, followed by what is still
\* queued for it, is a strictly increasing sequence of broadcast numbers:
\* messages are forwarded in the order of their broadcasts, each at most once.
C30_ForwardedInBroadcastOrder ==
    \A c \in Conns :
        /\ StrictlyIncreasing(ws_out[c] \o channel[c])
        /\ \A i \in DOMAIN ws_out[c] : ws_out[c][i] \in 1 .. broadcasts

\* C30: a client has been sent two broadcasts
C30_Witness ==
    \E c \in Conns : Len(ws_out[c]) >= 2


\* C31: once handle_connection has returned for a connection, neither its send
\* task nor its receive task is running any more (so the channel's receiver,
\* which the send task owns, has been released).
C31_TasksStoppedAfterReturn ==
    \A c \in Conns :
        conn_pc[c] = "closed" =>
            send_task[c] # "running" /\ recv_task[c] # "running"


\* ---------------------------------------------------------------------------
\* Further properties of the gap engine
\* ---------------------------------------------------------------------------

\* the records of the latest tick, in the order of the sort
Records == IF IsSome(telemetry_data.gap_data) THEN Unwrap(telemetry_data.gap_data) ELSE <<>>

\* C32: for every two entities adjacent in a tick's sort, the gap_to_next of
\* the one at position i is the negation of the gap_to_prev of the one at
\* position i + 1.
C32_AdjacentGapsAntisymmetric ==
    \A p \in DOMAIN Records :
        p + 1 \in DOMAIN Records =>
            Records[p].gap_to_next = 0 - Records[p + 1].gap_to_prev

\* C32 for the runs in which no car has ever lost progress
C32_AntisymmetricWithoutRegression ==
    monotonic_progress => C32_AdjacentGapsAntisymmetric


\* the values of a slot of CarIdxLapDistPct in the runs with slots that have no
\* car: the simulation reports -1.0 for such a slot (fortieths of a lap)
AbsentDistPcts == {0 - LapUnits, 0, 2}
\* the values of a slot of CarIdxLapCompleted in those runs: -1 for no car
AbsentLapCounts == {0 - 1, 1}

\* one tick whose sample can hold the values of a slot without a car
TickAbsent ==
    TickOver(VecsUpTo(AbsentDistPcts, NumCars),
             VecsUpTo(AbsentLapCounts, MaxLapSlots), MaxMalformedTicks)

NextAbsent == TickAbsent

SpecAbsent == Init /\ [][NextAbsent]_vars

\* C33: every checkpoint index stored in the history is at least 0, also after
\* ticks in which a slot without a car reports a negative distance fraction or
\* lap count.
C33_StoredCheckpointsNonNegative ==
    IsSome(CHECKPOINT_HISTORY) =>
        \A car \in DOMAIN Unwrap(CHECKPOINT_HISTORY) :
            \A cp \in DOMAIN Unwrap(CHECKPOINT_HISTORY)[car] : cp >= 0


\* C34: in every record, last_checkpoint is a checkpoint of that entity's
\* history and last_checkpoint_time is the time the history holds for it, the
\* time of the first crossing.
C34_LastCheckpointTimeFromHistory ==
    \A p \in DOMAIN Records :
        LET record == Records[p]
            history == Unwrap(CHECKPOINT_HISTORY)
        IN  /\ IsSome(CHECKPOINT_HISTORY)
            /\ record.car_idx \in DOMAIN history
            /\ record.last_checkpoint \in DOMAIN history[record.car_idx]
            /\ record.last_checkpoint_time
                   = history[record.car_idx][record.last_checkpoint]

\* the first half of C34 alone: last_checkpoint is in the entity's history
C34_LastCheckpointInHistory ==
    \A p \in DOMAIN Records :
        /\ IsSome(CHECKPOINT_HISTORY)
        /\ Records[p].car_idx \in DOMAIN Unwrap(CHECKPOINT_HISTORY)
        /\ Records[p].last_checkpoint
               \in DOMAIN Unwrap(CHECKPOINT_HISTORY)[Records[p].car_idx]


\* ---------------------------------------------------------------------------
\* The session info of a tick
\* ---------------------------------------------------------------------------

\* C35: while the connection's raw session info is empty, a tick retries
\* get_raw_session_info only when more than RETRY_INTERVAL seconds have passed
\* since the previous retry, and carries the retrieved or the fallback session
\* info; from the tick of a successful retry on, no tick on the same connection
\* carries the fallback.
C35_RetrievedSessionInfoKept ==
    [][SampledTick =>
         /\ raw_yaml.len = 0 =>
               /\ session_info'.source \in {"retry", "fallback"}
               /\ session_info'.retried =>
                     \E dt \in SecondsPassing : Later(since_retry, dt) > RETRY_INTERVAL
         /\ retry_succeeded' => session_info'.source # "fallback"
      ]_vars

\* the first half of C35 alone: retries are more than RETRY_INTERVAL seconds
\* apart, and a tick without raw session info carries the retrieved or the
\* fallback one
C35_RetryRateAndFallback ==
    [][SampledTick =>
         (raw_yaml.len = 0 =>
               /\ session_info'.source \in {"retry", "fallback"}
               /\ session_info'.retried =>
                     \E dt \in SecondsPassing : Later(since_retry, dt) > RETRY_INTERVAL)
      ]_vars

====
